---- MODULE Spec2Model ----
(***************************************************************************)
(* The javah-generated header                                              *)
(*   src/native/windows/directshow/                                        *)
(*     org_jitsi_impl_neomedia_jmfext_media_protocol_directshow_           *)
(*     DSCaptureDevice.h                                                   *)
(* read line by line by a C/C++ translation unit that includes it.         *)
(*                                                                         *)
(* The header is data: 93 lines.  The state machine is the reader of those *)
(* lines: the preprocessor's conditional stack and macro table, the        *)
(* declarations the compiler has seen, and the calls the including         *)
(* translation unit makes through those declarations.                      *)
(***************************************************************************)
EXTENDS Naturals, Sequences, FiniteSets

(* ------------------------------------------------------------------ *)
(* Bounds of the model                                                 *)
(* ------------------------------------------------------------------ *)

\* How many times the translation unit includes the header.
MaxIncludes == 2

\* How many calls through the declared prototypes the translation unit makes.
MaxCalls == 2

(* ------------------------------------------------------------------ *)
(* The text of the header                                              *)
(* ------------------------------------------------------------------ *)

\* Lines 5, 6: the include guard macro.
Guard == "_Included_org_jitsi_impl_neomedia_jmfext_media_protocol_directshow_DSCaptureDevice"

\* Lines 7, 90: the macro a C++ compiler predefines.
Cplusplus == "__cplusplus"

\* The value of every "Class:" comment line (lines 11, 19, ..., 83).
ClassComment == "org_jitsi_impl_neomedia_jmfext_media_protocol_directshow_DSCaptureDevice"

\* The class names that occur in the "Signature:" comment lines.
DSFormat == "org/jitsi/impl/neomedia/jmfext/media/protocol/directshow/DSFormat"
GrabberDelegate == "org/jitsi/impl/neomedia/jmfext/media/protocol/directshow/DSCaptureDevice/GrabberDelegate"
JavaString == "java/lang/String"

\* One comment block and the prototype under it.  sig is the descriptor of
\* the "Signature:" line, lexed: one element per character, a class name
\* being one element.  params is the parenthesised list of the second
\* prototype line, term the character that ends it.
Block(method, sig, ret, symbol, params) ==
    [cls |-> ClassComment, method |-> method, sig |-> sig, ret |-> ret,
     symbol |-> symbol, params |-> params, term |-> ";"]

\* Lines 10-88: the ten comment blocks and prototypes, in file order.
Blocks ==
    << Block("getBytes", <<"(", "J", "J", "I", ")", "I">>, "jint",
             "Java_org_jitsi_impl_neomedia_jmfext_media_protocol_directshow_DSCaptureDevice_getBytes",
             <<"JNIEnv *", "jclass", "jlong", "jlong", "jint">>),
       Block("connect", <<"(", "J", ")", "V">>, "void",
             "Java_org_jitsi_impl_neomedia_jmfext_media_protocol_directshow_DSCaptureDevice_connect",
             <<"JNIEnv *", "jobject", "jlong">>),
       Block("disconnect", <<"(", "J", ")", "V">>, "void",
             "Java_org_jitsi_impl_neomedia_jmfext_media_protocol_directshow_DSCaptureDevice_disconnect",
             <<"JNIEnv *", "jobject", "jlong">>),
       Block("getFormat", <<"(", "J", ")", "L", DSFormat, ";">>, "jobject",
             "Java_org_jitsi_impl_neomedia_jmfext_media_protocol_directshow_DSCaptureDevice_getFormat",
             <<"JNIEnv *", "jobject", "jlong">>),
       Block("getName", <<"(", "J", ")", "L", JavaString, ";">>, "jstring",
             "Java_org_jitsi_impl_neomedia_jmfext_media_protocol_directshow_DSCaptureDevice_getName",
             <<"JNIEnv *", "jobject", "jlong">>),
       Block("getSupportedFormats", <<"(", "J", ")", "[", "L", DSFormat, ";">>, "jobjectArray",
             "Java_org_jitsi_impl_neomedia_jmfext_media_protocol_directshow_DSCaptureDevice_getSupportedFormats",
             <<"JNIEnv *", "jobject", "jlong">>),
       Block("setDelegate", <<"(", "J", "L", GrabberDelegate, ";", ")", "V">>, "void",
             "Java_org_jitsi_impl_neomedia_jmfext_media_protocol_directshow_DSCaptureDevice_setDelegate",
             <<"JNIEnv *", "jobject", "jlong", "jobject">>),
       Block("setFormat", <<"(", "J", "L", DSFormat, ";", ")", "I">>, "jint",
             "Java_org_jitsi_impl_neomedia_jmfext_media_protocol_directshow_DSCaptureDevice_setFormat",
             <<"JNIEnv *", "jobject", "jlong", "jobject">>),
       Block("start", <<"(", "J", ")", "I">>, "jint",
             "Java_org_jitsi_impl_neomedia_jmfext_media_protocol_directshow_DSCaptureDevice_start",
             <<"JNIEnv *", "jobject", "jlong">>),
       Block("stop", <<"(", "J", ")", "I">>, "jint",
             "Java_org_jitsi_impl_neomedia_jmfext_media_protocol_directshow_DSCaptureDevice_stop",
             <<"JNIEnv *", "jobject", "jlong">>) >>

\* One line of the file: its kind, its one-word payload, its list payload.
Line(kind, text, list) == [kind |-> kind, text |-> text, list |-> list]

\* A mutation of lines 1-9: line 6 defines a macro other than the guard.
PrologueWrongDefine ==
    << Line("comment", "", <<>>),
       Line("include", "jni.h", <<>>),
       Line("comment", "", <<>>),
       Line("blank", "", <<>>),
       Line("ifndef", Guard, <<>>),
       Line("define", "_Included_DSCaptureDevice", <<>>),
       Line("ifdef", Cplusplus, <<>>),
       Line("extern_open", "C", <<>>),
       Line("endif", "", <<>>) >>

\* Lines 1-9: the banner, #include <jni.h>, the guard, the opening of
\* extern "C" under #ifdef __cplusplus.
Prologue ==
    << Line("comment", "", <<>>),
       Line("include", "jni.h", <<>>),
       Line("comment", "", <<>>),
       Line("blank", "", <<>>),
       Line("ifndef", Guard, <<>>),
       Line("define", Guard, <<>>),
       Line("ifdef", Cplusplus, <<>>),
       Line("extern_open", "C", <<>>),
       Line("endif", "", <<>>) >>

\* The eight lines of one block: the five comment lines, the two prototype
\* lines, the blank line after them (lines 10-17 for the first block).
BlockLines(b) ==
    << Line("doc_open", "", <<>>),
       Line("doc_class", b.cls, <<>>),
       Line("doc_method", b.method, <<>>),
       Line("doc_sig", "", b.sig),
       Line("doc_close", "", <<>>),
       Line("proto_head", b.symbol, <<b.ret>>),
       Line("proto_params", b.term, b.params),
       Line("blank", "", <<>>) >>

\* Lines 90-93: the closing of extern "C" and of the guard.
Epilogue ==
    << Line("ifdef", Cplusplus, <<>>),
       Line("extern_close", "C", <<>>),
       Line("endif", "", <<>>),
       Line("endif", "", <<>>) >>

RECURSIVE Concat(_)
Concat(ss) == IF ss = <<>> THEN <<>> ELSE Head(ss) \o Concat(Tail(ss))

\* A file made of the prologue, the given blocks and the epilogue.
HeaderOf(blocks) ==
    Prologue \o Concat([i \in 1..Len(blocks) |-> BlockLines(blocks[i])]) \o Epilogue

\* Mutations of the file, each a slip in one prototype or comment block.
\* getFormat is declared under the name of disconnect.
HeaderDuplicated ==
    HeaderOf([Blocks EXCEPT ![4].symbol = Blocks[3].symbol])
\* getBytes is defined inline instead of declared.
HeaderWithBody ==
    HeaderOf([Blocks EXCEPT ![1].term = "{"])
\* connect takes the native object as a C pointer.
HeaderRawPointer ==
    HeaderOf([Blocks EXCEPT ![2].params = <<"JNIEnv *", "jobject", "void *">>])
\* setFormat returns void although its descriptor ends in I.
HeaderWrongReturn ==
    HeaderOf([Blocks EXCEPT ![8].ret = "void"])
\* The comment block of start names the method begin.
HeaderWrongMethod ==
    HeaderOf([Blocks EXCEPT ![9].method = "begin"])
\* connect is declared as a static method.
HeaderStaticConnect ==
    HeaderOf([Blocks EXCEPT ![2].params = <<"JNIEnv *", "jclass", "jlong">>])

\* The whole file, lines 1-93.
Header == HeaderOf(Blocks)

(* ------------------------------------------------------------------ *)
(* The reader                                                          *)
(* ------------------------------------------------------------------ *)

VARIABLES
    pc,        \* line of the header being read; 0 outside the header
    includes,  \* completed inclusions of the header
    macros,    \* macros defined in the translation unit
    included,  \* files the header has included
    conds,     \* open #if groups, innermost last: TRUE when the group is read
    externC,   \* inside the extern "C" { } block
    doc,       \* Class, Method, Signature of the comment block last read
    head,      \* first line of a prototype whose parameter list is to come
    decls,     \* function declarations seen, in order
    calls      \* symbols the translation unit has called, in order

vars == <<pc, includes, macros, included, conds, externC, doc, head, decls, calls>>

NoDoc == [cls |-> "", method |-> "", sig |-> <<>>]
NoHead == [symbol |-> "", ret |-> ""]

\* A translation unit is compiled as C or as C++.
Init ==
    /\ pc = 0
    /\ includes = 0
    /\ macros \in {{}, {Cplusplus}}
    /\ included = {}
    /\ conds = <<>>
    /\ externC = FALSE
    /\ doc = NoDoc
    /\ head = NoHead
    /\ decls = <<>>
    /\ calls = <<>>

InHeader == pc \in 1..Len(Header)
Cur == Header[pc]

\* Every enclosing #if group is one that is read.
Active == \A i \in 1..Len(conds) : conds[i]

\* The #include directive of a translation unit that names this header.
BeginInclude ==
    /\ pc = 0
    /\ includes < MaxIncludes
    /\ pc' = 1
    /\ UNCHANGED <<includes, macros, included, conds, externC, doc, head, decls, calls>>

\* The end of the file: back to the including translation unit.
EndInclude ==
    /\ pc = Len(Header) + 1
    /\ pc' = 0
    /\ includes' = includes + 1
    /\ UNCHANGED <<macros, included, conds, externC, doc, head, decls, calls>>

\* A line inside a group that is not read: only #if and #endif count there.
SkipLine ==
    /\ InHeader
    /\ ~Active
    /\ Cur.kind \notin {"ifdef", "ifndef", "endif"}
    /\ pc' = pc + 1
    /\ UNCHANGED <<includes, macros, included, conds, externC, doc, head, decls, calls>>

\* Lines 1, 3 and the blank lines.
ReadComment ==
    /\ InHeader
    /\ Active
    /\ Cur.kind \in {"comment", "blank"}
    /\ pc' = pc + 1
    /\ UNCHANGED <<includes, macros, included, conds, externC, doc, head, decls, calls>>

\* Line 2: #include <jni.h>.
ReadIncludeJni ==
    /\ InHeader
    /\ Active
    /\ Cur.kind = "include"
    /\ included' = included \cup {Cur.text}
    /\ pc' = pc + 1
    /\ UNCHANGED <<includes, macros, conds, externC, doc, head, decls, calls>>

\* Line 5: #ifndef <guard>.
ReadIfndef ==
    /\ InHeader
    /\ Cur.kind = "ifndef"
    /\ conds' = Append(conds, Active /\ Cur.text \notin macros)
    /\ pc' = pc + 1
    /\ UNCHANGED <<includes, macros, included, externC, doc, head, decls, calls>>

\* Line 6: #define <guard>.
ReadDefine ==
    /\ InHeader
    /\ Active
    /\ Cur.kind = "define"
    /\ macros' = macros \cup {Cur.text}
    /\ pc' = pc + 1
    /\ UNCHANGED <<includes, included, conds, externC, doc, head, decls, calls>>

\* Lines 7, 90: #ifdef __cplusplus.
ReadIfdef ==
    /\ InHeader
    /\ Cur.kind = "ifdef"
    /\ conds' = Append(conds, Active /\ Cur.text \in macros)
    /\ pc' = pc + 1
    /\ UNCHANGED <<includes, macros, included, externC, doc, head, decls, calls>>

\* Lines 9, 92, 93: #endif.
ReadEndif ==
    /\ InHeader
    /\ Cur.kind = "endif"
    /\ conds # <<>>
    /\ conds' = SubSeq(conds, 1, Len(conds) - 1)
    /\ pc' = pc + 1
    /\ UNCHANGED <<includes, macros, included, externC, doc, head, decls, calls>>

\* Line 8: extern "C" {
ReadExternOpen ==
    /\ InHeader
    /\ Active
    /\ Cur.kind = "extern_open"
    /\ externC' = TRUE
    /\ pc' = pc + 1
    /\ UNCHANGED <<includes, macros, included, conds, doc, head, decls, calls>>

\* Line 91: }
ReadExternClose ==
    /\ InHeader
    /\ Active
    /\ Cur.kind = "extern_close"
    /\ externC' = FALSE
    /\ pc' = pc + 1
    /\ UNCHANGED <<includes, macros, included, conds, head, doc, decls, calls>>

\* Lines 10-14 and their like: the comment block above a prototype.
ReadDoc ==
    /\ InHeader
    /\ Active
    /\ Cur.kind \in {"doc_open", "doc_class", "doc_method", "doc_sig", "doc_close"}
    /\ doc' = CASE Cur.kind = "doc_open"   -> NoDoc
              [] Cur.kind = "doc_class"  -> [doc EXCEPT !.cls = Cur.text]
              [] Cur.kind = "doc_method" -> [doc EXCEPT !.method = Cur.text]
              [] Cur.kind = "doc_sig"    -> [doc EXCEPT !.sig = Cur.list]
              [] OTHER                   -> doc
    /\ pc' = pc + 1
    /\ UNCHANGED <<includes, macros, included, conds, externC, head, decls, calls>>

\* Line 15 and its like: JNIEXPORT <type> JNICALL <symbol>
ReadProtoHead ==
    /\ InHeader
    /\ Active
    /\ Cur.kind = "proto_head"
    /\ head' = [symbol |-> Cur.text, ret |-> Cur.list[1]]
    /\ pc' = pc + 1
    /\ UNCHANGED <<includes, macros, included, conds, externC, doc, decls, calls>>

\* The language linkage of a declaration made now.
Linkage == IF Cplusplus \in macros /\ ~externC THEN "C++" ELSE "C"

\* Line 16 and its like: (JNIEnv *, <receiver>, <parameters>);
\* The declaration is complete; it has a body only if "{" ends the line.
ReadProtoParams ==
    /\ InHeader
    /\ Active
    /\ Cur.kind = "proto_params"
    /\ decls' = Append(decls,
                       [symbol |-> head.symbol, ret |-> head.ret,
                        params |-> Cur.list, body |-> (Cur.text # ";"),
                        linkage |-> Linkage, doc |-> doc])
    /\ head' = NoHead
    /\ pc' = pc + 1
    /\ UNCHANGED <<includes, macros, included, conds, externC, doc, calls>>

\* The symbols declared so far.
Declared == {decls[i].symbol : i \in 1..Len(decls)}

\* A symbol the header does not declare.
Undeclared == "Java_org_jitsi_impl_neomedia_jmfext_media_protocol_directshow_DSCaptureDevice_pause"

\* The symbols a translation unit may try to call.
Callable == {Blocks[i].symbol : i \in 1..Len(Blocks)} \cup {Undeclared}

\* The translation unit calls a function: it compiles if a declaration of
\* the symbol has been seen.  The header attaches nothing else to a call.
Call(s) ==
    /\ pc = 0
    /\ Len(calls) < MaxCalls
    /\ s \in Declared
    /\ calls' = Append(calls, s)
    /\ UNCHANGED <<pc, includes, macros, included, conds, externC, doc, head, decls>>

Next ==
    \/ BeginInclude
    \/ EndInclude
    \/ SkipLine
    \/ ReadComment
    \/ ReadIncludeJni
    \/ ReadIfndef
    \/ ReadDefine
    \/ ReadIfdef
    \/ ReadEndif
    \/ ReadExternOpen
    \/ ReadExternClose
    \/ ReadDoc
    \/ ReadProtoHead
    \/ ReadProtoParams
    \/ \E s \in Callable : Call(s)

Spec == Init /\ [][Next]_vars

(* ------------------------------------------------------------------ *)
(* What the claims are stated with                                     *)
(* ------------------------------------------------------------------ *)

\* The native methods of class DSCaptureDevice.
TenMethods ==
    {"getBytes", "connect", "disconnect", "getFormat", "getName",
     "getSupportedFormats", "setDelegate", "setFormat", "start", "stop"}

\* The methods a capture session calls.
SessionMethods ==
    {"connect", "disconnect", "setFormat", "setDelegate", "start", "stop", "getBytes"}

\* JNI's name of the native function of method m of class cls.
EntryPoint(cls, m) == "Java_" \o cls \o "_" \o m

\* The entry points of the ten native methods.
TenEntryPoints == {EntryPoint(ClassComment, m) : m \in TenMethods}

\* The header has been read through at least once and the reader is back
\* in the including translation unit.
Included == pc = 0 /\ includes >= 1

\* The types in which JNI passes Java values and references.
JniTypes == {"jlong", "jint", "jobject", "jstring", "jobjectArray"}

\* How many lexemes the first field type of descriptor part s takes.
RECURSIVE TypeLen(_)
TypeLen(s) ==
    CASE s[1] = "L" -> 3
      [] s[1] = "[" -> 1 + TypeLen(Tail(s))
      [] OTHER      -> 1

\* The C type of the field type that descriptor part s starts with.
CType(s) ==
    CASE s[1] = "J" -> "jlong"
      [] s[1] = "I" -> "jint"
      [] s[1] = "V" -> "void"
      [] s[1] = "L" -> IF s[2] = JavaString THEN "jstring" ELSE "jobject"
      [] s[1] = "[" -> IF s[2] = "L" THEN "jobjectArray" ELSE "jarray"
      [] OTHER      -> "?"

\* The C types of the field types of descriptor part s, in order.
RECURSIVE CTypes(_)
CTypes(s) ==
    IF s = <<>> THEN <<>>
    ELSE <<CType(s)>> \o CTypes(SubSeq(s, TypeLen(s) + 1, Len(s)))

\* Where the parameter part of descriptor sig closes.
CloseAt(sig) == CHOOSE i \in 1..Len(sig) : sig[i] = ")"

\* The parameter part and the return part of descriptor sig.
SigParams(sig) == SubSeq(sig, 2, CloseAt(sig) - 1)
SigReturn(sig) == SubSeq(sig, CloseAt(sig) + 1, Len(sig))

\* The parameters of declaration d after (JNIEnv *, receiver).
JavaParams(d) == SubSeq(d.params, 3, Len(d.params))

(* ------------------------------------------------------------------ *)
(* The claims                                                          *)
(* ------------------------------------------------------------------ *)

\* C1: no symbol is ever declared twice (there are as many declared symbols
\* as declarations), and once the header has been
\* read the declarations are exactly the ten entry points of
\* DSCaptureDevice: getBytes, connect, disconnect, getFormat, getName,
\* getSupportedFormats, setDelegate, setFormat, start, stop, each once and
\* nothing else.
C1_ExactlyTenEntryPoints ==
    /\ Cardinality(Declared) = Len(decls)
    /\ includes >= 1 =>
          /\ Len(decls) = 10
          /\ Declared = TenEntryPoints

\* C1 witness: the header has just been read for the first time in a C++
\* translation unit and stop, the last entry point, is declared.
C1_Witness ==
    /\ pc = 0
    /\ includes = 1
    /\ Cplusplus \in macros
    /\ EntryPoint(ClassComment, "stop") \in Declared

\* C2: every entry is a prototype without a body; the header leaves nothing
\* in the translation unit but function declarations and its guard macro (no
\* variable, no type, no state); and so, once the header is read, a call of
\* connect, disconnect, setFormat, setDelegate, start, stop or getBytes is
\* accepted whatever calls were made before it.
C2_NoLogicNoOrdering ==
    /\ \A i \in 1..Len(decls) : ~decls[i].body
    /\ macros \subseteq {Cplusplus, Guard}
    /\ included \subseteq {"jni.h"}
    /\ includes >= 1 => Len(decls) = 10
    /\ (Included /\ Len(calls) < MaxCalls) =>
          \A m \in SessionMethods : ENABLED Call(EntryPoint(ClassComment, m))

\* C2 witness: the translation unit has called stop and then connect, with
\* no start and no disconnect between them.
C2_Witness ==
    /\ Included
    /\ calls = <<EntryPoint(ClassComment, "stop"), EntryPoint(ClassComment, "connect")>>

\* C3: in every declaration the parameter after JNIEnv * and the receiver
\* is a jlong, and no parameter has a C pointer type: every parameter after
\* the receiver has a JNI type.
C3_HandleIsJlong ==
    /\ \A i \in 1..Len(decls) :
          /\ Len(decls[i].params) >= 3
          /\ decls[i].params[1] = "JNIEnv *"
          /\ decls[i].params[2] \in {"jclass", "jobject"}
          /\ decls[i].params[3] = "jlong"
          /\ \A k \in 3..Len(decls[i].params) : decls[i].params[k] \in JniTypes
    /\ includes >= 1 => Len(decls) = 10

\* C3 witness: all ten are declared, among them getBytes with its two
\* jlong parameters.
C3_Witness ==
    /\ Len(decls) = 10
    /\ \E i \in 1..Len(decls) :
          JavaParams(decls[i]) = <<"jlong", "jlong", "jint">>

\* C4: in every declaration the C return type and the C parameters after
\* (JNIEnv *, receiver) are the ones the descriptor of its Signature
\* comment maps to: as many parameters, and each of the mapped type.
C4_PrototypeMatchesSignature ==
    /\ \A i \in 1..Len(decls) :
          /\ <<decls[i].ret>> = CTypes(SigReturn(decls[i].doc.sig))
          /\ JavaParams(decls[i]) = CTypes(SigParams(decls[i].doc.sig))
    /\ includes >= 1 => Len(decls) = 10

\* C4 witness: all ten are declared, among them one that returns an
\* object array, one that returns a string and one that takes an object.
C4_Witness ==
    /\ Len(decls) = 10
    /\ \E i \in 1..Len(decls) : decls[i].ret = "jobjectArray"
    /\ \E i \in 1..Len(decls) : decls[i].ret = "jstring"
    /\ \E i \in 1..Len(decls) : JavaParams(decls[i]) = <<"jlong", "jobject">>

\* C5: the symbol of every declaration is Java_, the Class comment of its
\* block, an underscore and the Method comment of its block; the symbols
\* are pairwise distinct and every block names the same class.
C5_SymbolIsMangledName ==
    /\ \A i \in 1..Len(decls) :
          /\ decls[i].symbol = EntryPoint(decls[i].doc.cls, decls[i].doc.method)
          /\ decls[i].doc.cls = ClassComment
    /\ Cardinality(Declared) = Len(decls)
    /\ Cardinality({decls[i].doc.cls : i \in 1..Len(decls)}) <= 1
    /\ includes >= 1 => Len(decls) = 10

\* C5 witness: the reader is past the prototype of start.
C5_Witness ==
    /\ pc > 0
    /\ \E i \in 1..Len(decls) : decls[i].doc.method = "start"

\* C6: the receiver is jclass in the declaration of getBytes and jobject in
\* every other declaration.
C6_OnlyGetBytesIsStatic ==
    /\ \A i \in 1..Len(decls) :
          decls[i].params[2] =
             IF decls[i].symbol = EntryPoint(ClassComment, "getBytes")
             THEN "jclass" ELSE "jobject"
    /\ includes >= 1 =>
          Cardinality({i \in 1..Len(decls) : decls[i].params[2] = "jclass"}) = 1
    /\ includes >= 1 =>
          Cardinality({i \in 1..Len(decls) : decls[i].params[2] = "jobject"}) = 9

\* C6 witness: getBytes and the other nine are declared.
C6_Witness ==
    /\ Len(decls) = 10
    /\ decls[1].symbol = EntryPoint(ClassComment, "getBytes")
    /\ decls[1].params[2] = "jclass"

\* C7: the first inclusion defines the guard macro and contributes the ten
\* declarations; from then on no step changes the declarations or the
\* defined macros; and no step undefines the guard macro.
C7_InclusionIsIdempotent ==
    /\ [](includes >= 1 => Guard \in macros /\ Len(decls) = 10)
    /\ [][includes >= 1 => (decls' = decls /\ macros' = macros)]_vars
    /\ [][(Guard \in macros) => (Guard \in macros')]_vars

\* C7 witness: the header has been read a second time.
C7_Witness ==
    /\ includes >= 2
    /\ Guard \in macros
    /\ Len(decls) = 10

====
